---- MODULE Spec2Model ----
(***************************************************************************)
(* Scheduling and ledger engine of the therapy-centre CRM.                 *)
(*                                                                         *)
(* The durable store is the Postgres schema of                             *)
(* supabase/migrations/20251217141000_business_module.sql: the tables      *)
(* appointments, transactions and services, their CHECK / EXCLUDE / UNIQUE *)
(* constraints, the row-level-security policies and the trigger            *)
(* handle_appointment_completed_charge.  The operations are the handlers   *)
(* of src/components/business/ServicesManager.tsx (BusinessCalendar,       *)
(* FinanceManager, ServicesManager), each one statement against the store. *)
(***************************************************************************)
EXTENDS Integers, Sequences, FiniteSets, TLC

\* ------------------------------------------------------------------------
\* Bounds of the model
\* ------------------------------------------------------------------------
MaxAppt == 2        \* appointment rows ever inserted (double-booking models)
MaxBilled == 1      \* appointment rows ever inserted (lifecycle model)
MaxTx == 2          \* transaction rows ever inserted
MaxStart == 1       \* latest start tick a form or a drag can choose
MaxDur == 2         \* longest duration, in ticks
MaxPrice == 2       \* highest service price
MaxUntilDay == 1    \* latest day a recurrence end date can name
TicksPerDay == 2    \* ticks of the calendar grid in one day
MaxSeedTick == 5    \* latest seed start of an expanded series
MaxSeriesDay == 10  \* latest end day of an expanded series

\* ------------------------------------------------------------------------
\* Directory data the engine consumes (profiles, children, assignments)
\* ------------------------------------------------------------------------
Users == {"adm", "mgr", "t1", "t2", "par", "ghost"}
Children == {"c1", "c2"}
Specialists == {"t1", "t2"}
Services == {"s1"}

\* public.profiles: "ghost" is an authenticated caller without a profile row.
Profiles == [adm |-> "admin", mgr |-> "manager", t1 |-> "therapist",
             t2 |-> "therapist", par |-> "parent"]

\* public.children.parent_id
ParentOf == [c1 |-> "par", c2 |-> "nobody"]

\* public.therapist_children
TherapistChildren == {<<"t1", "c1">>}

AppointmentStatus == {"pending", "confirmed", "canceled", "completed", "no_show"}

\* SQL NULL in transactions.appointment_id and appointments.recurrence_group_id
NullId == 0

\* ------------------------------------------------------------------------
\* State
\* ------------------------------------------------------------------------
VARIABLES
    appointments,   \* public.appointments: id -> row, for the rows that exist
    transactions,   \* public.transactions: id -> row
    price,          \* public.services.price, per service
    nextApptId,     \* ids are never reused (uuid primary keys)
    nextTxId,
    last,           \* what the last handler got back: [op, code, failed]
    req             \* two calendar clients with a create request in flight

vars == <<appointments, transactions, price, nextApptId, nextTxId, last, req>>

\* ------------------------------------------------------------------------
\* Role helpers (SECURITY DEFINER functions used by the policies)
\* ------------------------------------------------------------------------
\* get_my_role with the missing profile read as the highest role
get_my_role_default_admin(uid) ==
    IF uid \in DOMAIN Profiles THEN Profiles[uid] ELSE "admin"

\* coalesce((select role of auth.uid()), 'parent')
get_my_role(uid) ==
    IF uid \in DOMAIN Profiles THEN Profiles[uid] ELSE "parent"

is_admin(uid) == get_my_role(uid) = "admin"

is_manager(uid) == uid \in DOMAIN Profiles /\ Profiles[uid] = "manager"

is_admin_or_manager(uid) == is_admin(uid) \/ is_manager(uid)

\* Mutant: can_read_child as it was before the manager role was added.
can_read_child_admin_only(uid, child) ==
    \/ is_admin(uid)
    \/ ParentOf[child] = uid
    \/ <<uid, child>> \in TherapistChildren

can_read_child(uid, child) ==
    \/ is_admin_or_manager(uid)
    \/ ParentOf[child] = uid
    \/ <<uid, child>> \in TherapistChildren

\* Mutant: the guardian clause of can_read_child copied into can_write_child.
can_write_child_with_guardian(uid, child) ==
    \/ is_admin_or_manager(uid)
    \/ ParentOf[child] = uid
    \/ <<uid, child>> \in TherapistChildren

can_write_child(uid, child) ==
    \/ is_admin_or_manager(uid)
    \/ <<uid, child>> \in TherapistChildren

\* ------------------------------------------------------------------------
\* Constraints of public.appointments
\* ------------------------------------------------------------------------
\* tstzrange(a, b, '[)') && tstzrange(c, d, '[)')
\* Mutant: the ranges taken closed, '[]': touching at a bound is an overlap
RangesOverlap_closed(s1, e1, s2, e2) == s1 <= e2 /\ s2 <= e1

RangesOverlap(s1, e1, s2, e2) == s1 < e2 /\ s2 < e1

\* check (end_time > start_time)
appointments_check(row) == row.end_time > row.start_time

\* Mutant: the constraint without its "where (status <> 'canceled')" filter.
appointments_no_overlap_specialist_unfiltered(A, id, row) ==
    \A o \in DOMAIN A \ {id} :
        ~ /\ A[o].specialist_id = row.specialist_id
          /\ RangesOverlap(A[o].start_time, A[o].end_time,
                           row.start_time, row.end_time)

\* Mutant: the constraint compares closed ranges '[]' of one tick less, so
\* that only rows with the same start are told apart.
appointments_no_overlap_specialist_same_start(A, id, row) ==
    row.status # "canceled" =>
        \A o \in DOMAIN A \ {id} :
            ~ /\ A[o].status # "canceled"
              /\ A[o].specialist_id = row.specialist_id
              /\ A[o].start_time = row.start_time

\* Mutant: the constraint applied to inserted rows only, not to updates.
appointments_no_overlap_specialist_on_insert(A, id, row) ==
    (row.status # "canceled" /\ id \notin DOMAIN A) =>
        \A o \in DOMAIN A \ {id} :
            ~ /\ A[o].status # "canceled"
              /\ A[o].specialist_id = row.specialist_id
              /\ RangesOverlap(A[o].start_time, A[o].end_time,
                               row.start_time, row.end_time)

\* exclude using gist (specialist_id with =, tstzrange && ) where status <> canceled
\* for the row `row` stored under `id` against the other rows of A
appointments_no_overlap_specialist(A, id, row) ==
    row.status # "canceled" =>
        \A o \in DOMAIN A \ {id} :
            ~ /\ A[o].status # "canceled"
              /\ A[o].specialist_id = row.specialist_id
              /\ RangesOverlap(A[o].start_time, A[o].end_time,
                               row.start_time, row.end_time)

\* Mutant: one exclusion constraint over (child_id, specialist_id) together.
appointments_no_overlap_child_and_specialist(A, id, row) ==
    row.status # "canceled" =>
        \A o \in DOMAIN A \ {id} :
            ~ /\ A[o].status # "canceled"
              /\ A[o].child_id = row.child_id
              /\ A[o].specialist_id = row.specialist_id
              /\ RangesOverlap(A[o].start_time, A[o].end_time,
                               row.start_time, row.end_time)

\* exclude using gist (child_id with =, tstzrange && ) where status <> canceled
appointments_no_overlap_child(A, id, row) ==
    row.status # "canceled" =>
        \A o \in DOMAIN A \ {id} :
            ~ /\ A[o].status # "canceled"
              /\ A[o].child_id = row.child_id
              /\ RangesOverlap(A[o].start_time, A[o].end_time,
                               row.start_time, row.end_time)

\* ------------------------------------------------------------------------
\* Errors a statement returns to the client (PostgREST error objects)
\* ------------------------------------------------------------------------
NoError == [code |-> "ok", message |-> "none"]
RlsError == [code |-> "42501", message |-> "row-level security policy"]
CheckError == [code |-> "23514", message |-> "appointments_check"]
SpecialistOverlapError ==
    [code |-> "23P01", message |-> "appointments_no_overlap_specialist"]
ChildOverlapError ==
    [code |-> "23P01", message |-> "appointments_no_overlap_child"]
UniqueError == [code |-> "23505", message |-> "transactions_appointment_id_type_key"]

\* messages that contain "exclude", "overlap" or "appointments_no_overlap"
OverlapMessages ==
    {"appointments_no_overlap_specialist", "appointments_no_overlap_child"}

isConflictError(err) ==
    \/ err.code = "23P01"
    \/ err.message \in OverlapMessages

\* ------------------------------------------------------------------------
\* public.transactions and the completion trigger
\* ------------------------------------------------------------------------
HasCharge(T, id) ==
    \E t \in DOMAIN T : T[t].appointment_id = id /\ T[t].type = "charge"

\* Mutant: the table without unique(appointment_id, type).
insert_transaction_without_unique(T, ntx, row) ==
    [err |-> NoError, txs |-> T @@ (ntx :> row), ntx |-> ntx + 1]

\* Mutant: a plain insert, without "on conflict ... do nothing".
insert_transaction_plain(T, ntx, row) ==
    IF /\ row.appointment_id # NullId
       /\ \E t \in DOMAIN T : /\ T[t].appointment_id = row.appointment_id
                              /\ T[t].type = row.type
    THEN [err |-> UniqueError, txs |-> T, ntx |-> ntx]
    ELSE [err |-> NoError, txs |-> T @@ (ntx :> row), ntx |-> ntx + 1]

\* insert into public.transactions (...) values (...)
\*   on conflict (appointment_id, type) do nothing
\* unique(appointment_id, type) treats NULL appointment ids as distinct.
insert_transaction_on_conflict_do_nothing(T, ntx, row) ==
    IF /\ row.appointment_id # NullId
       /\ \E t \in DOMAIN T : /\ T[t].appointment_id = row.appointment_id
                              /\ T[t].type = row.type
    THEN [err |-> NoError, txs |-> T, ntx |-> ntx]
    ELSE [err |-> NoError, txs |-> T @@ (ntx :> row), ntx |-> ntx + 1]

\* Mutant: the charge is written from the row as it was before the update.
handle_appointment_completed_charge_old_row(old, new, id, T, ntx, P) ==
    IF new.status = "completed" /\ old.status # new.status
    THEN insert_transaction_on_conflict_do_nothing(T, ntx,
            [child_id |-> old.child_id,
             appointment_id |-> id,
             amount |-> P[old.service_id],
             type |-> "charge",
             date |-> old.end_time])
    ELSE [err |-> NoError, txs |-> T, ntx |-> ntx]

\* Mutant: the trigger fires only for confirmed -> completed.
handle_appointment_completed_charge_from_confirmed(old, new, id, T, ntx, P) ==
    IF new.status = "completed" /\ old.status = "confirmed"
    THEN insert_transaction_on_conflict_do_nothing(T, ntx,
            [child_id |-> new.child_id,
             appointment_id |-> id,
             amount |-> P[new.service_id],
             type |-> "charge",
             date |-> new.end_time])
    ELSE [err |-> NoError, txs |-> T, ntx |-> ntx]

\* Mutant: the trigger also withdraws the charge when the appointment leaves
\* "completed".
handle_appointment_completed_charge_with_refund(old, new, id, T, ntx, P) ==
    IF new.status = "completed" /\ old.status # new.status
    THEN insert_transaction_on_conflict_do_nothing(T, ntx,
            [child_id |-> new.child_id,
             appointment_id |-> id,
             amount |-> P[new.service_id],
             type |-> "charge",
             date |-> new.end_time])
    ELSE IF old.status = "completed" /\ new.status # "completed"
    THEN LET kept == {t \in DOMAIN T :
                        ~(T[t].type = "charge" /\ T[t].appointment_id = id)}
         IN  [err |-> NoError, txs |-> [t \in kept |-> T[t]], ntx |-> ntx]
    ELSE [err |-> NoError, txs |-> T, ntx |-> ntx]

\* after update of status on public.appointments, for each row
handle_appointment_completed_charge(old, new, id, T, ntx, P) ==
    IF new.status = "completed" /\ old.status # new.status
    THEN insert_transaction_on_conflict_do_nothing(T, ntx,
            [child_id |-> new.child_id,
             appointment_id |-> id,
             amount |-> P[new.service_id],
             type |-> "charge",
             date |-> new.end_time])
    ELSE [err |-> NoError, txs |-> T, ntx |-> ntx]

\* ------------------------------------------------------------------------
\* Statements against public.appointments, under row-level security
\* ------------------------------------------------------------------------
\* policy appointments_insert_admin_or_manager
appointments_insert_policy(uid, row) == is_admin_or_manager(uid)

\* policy appointments_update_admin_or_manager_or_specialist (using, with check)
appointments_update_policy(uid, row) ==
    is_admin_or_manager(uid) \/ row.specialist_id = uid

\* Mutant: the delete policy written like the update policy.
appointments_delete_policy_or_specialist(uid, row) ==
    is_admin_or_manager(uid) \/ row.specialist_id = uid

\* policy appointments_delete_admin_or_manager
appointments_delete_policy(uid, row) == is_admin_or_manager(uid)

\* policy appointments_select_by_access
\* Mutant: the select policy without "specialist_id = auth.uid()".
appointments_select_policy_by_child(uid, row) ==
    \/ is_admin_or_manager(uid)
    \/ can_read_child(uid, row.child_id)

appointments_select_policy(uid, row) ==
    \/ is_admin_or_manager(uid)
    \/ row.specialist_id = uid
    \/ can_read_child(uid, row.child_id)

\* supabase.from("appointments").insert(rows), one row
insertAppointmentRows(uid, row, A, nid) ==
    IF ~appointments_insert_policy(uid, row)
    THEN [err |-> RlsError, appts |-> A]
    ELSE IF ~appointments_check(row)
    THEN [err |-> CheckError, appts |-> A]
    ELSE IF ~appointments_no_overlap_specialist(A, nid, row)
    THEN [err |-> SpecialistOverlapError, appts |-> A]
    ELSE IF ~appointments_no_overlap_child(A, nid, row)
    THEN [err |-> ChildOverlapError, appts |-> A]
    ELSE [err |-> NoError, appts |-> A @@ (nid :> row)]

\* supabase.from("appointments").update(patch).eq("id", id): `new` is the old
\* row with the patch applied, setsStatus tells whether the patch names status
\* (the trigger is "after update of status").  A row the caller's policies
\* hide is not updated and no error is returned; a failure of the trigger's
\* statement aborts the whole update.
updateAppointment(uid, id, new, setsStatus, A, T, ntx, P) ==
    LET unchanged == [appts |-> A, txs |-> T, ntx |-> ntx]
    IN  IF \/ id \notin DOMAIN A
           \/ ~appointments_select_policy(uid, A[id])
           \/ ~appointments_update_policy(uid, A[id])
        THEN [err |-> NoError] @@ unchanged
        ELSE IF ~appointments_update_policy(uid, new)
        THEN [err |-> RlsError] @@ unchanged
        ELSE IF ~appointments_check(new)
        THEN [err |-> CheckError] @@ unchanged
        ELSE IF ~appointments_no_overlap_specialist(A, id, new)
        THEN [err |-> SpecialistOverlapError] @@ unchanged
        ELSE IF ~appointments_no_overlap_child(A, id, new)
        THEN [err |-> ChildOverlapError] @@ unchanged
        ELSE LET trg == IF setsStatus
                        THEN handle_appointment_completed_charge(
                                 A[id], new, id, T, ntx, P)
                        ELSE [err |-> NoError, txs |-> T, ntx |-> ntx]
             IN  IF trg.err.code # "ok"
                 THEN [err |-> trg.err] @@ unchanged
                 ELSE [err |-> NoError,
                       appts |-> [A EXCEPT ![id] = new],
                       txs |-> trg.txs, ntx |-> trg.ntx]

\* Mutant: transactions.appointment_id declared "on delete cascade".
deleteAppointment_cascade(uid, id, A, T) ==
    IF \/ id \notin DOMAIN A
       \/ ~appointments_select_policy(uid, A[id])
       \/ ~appointments_delete_policy(uid, A[id])
    THEN [err |-> NoError, appts |-> A, txs |-> T]
    ELSE [err |-> NoError,
          appts |-> [o \in DOMAIN A \ {id} |-> A[o]],
          txs |-> [t \in {x \in DOMAIN T : T[x].appointment_id # id} |-> T[t]]]

\* supabase.from("appointments").delete().eq("id", id); the foreign key
\* transactions.appointment_id is "on delete set null".
deleteAppointment(uid, id, A, T) ==
    IF \/ id \notin DOMAIN A
       \/ ~appointments_select_policy(uid, A[id])
       \/ ~appointments_delete_policy(uid, A[id])
    THEN [err |-> NoError, appts |-> A, txs |-> T]
    ELSE [err |-> NoError,
          appts |-> [o \in DOMAIN A \ {id} |-> A[o]],
          txs |-> [t \in DOMAIN T |->
                     IF T[t].appointment_id = id
                     THEN [T[t] EXCEPT !.appointment_id = NullId]
                     ELSE T[t]]]

\* ------------------------------------------------------------------------
\* Statements against public.transactions and public.services
\* ------------------------------------------------------------------------
\* policy transactions_insert_admin_or_manager_or_specialist_charge
transactions_insert_policy(uid, row, A) ==
    \/ is_admin_or_manager(uid)
    \/ /\ row.type = "charge"
       /\ row.appointment_id # NullId
       /\ row.appointment_id \in DOMAIN A
       /\ A[row.appointment_id].specialist_id = uid

\* policy transactions_delete_admin_or_manager
\* "transactions_update_admin_or_manager": using and with check
transactions_update_policy(uid, row) == is_admin_or_manager(uid)

transactions_delete_policy(uid, row) == is_admin_or_manager(uid)

\* policy transactions_select_by_child_access
transactions_select_policy(uid, row) ==
    is_admin_or_manager(uid) \/ can_read_child(uid, row.child_id)

\* policy services_write_admin_or_manager
services_write_policy(uid) == is_admin_or_manager(uid)

\* supabase.from("transactions").insert({... type: "payment" ...})
insertPayment(uid, row, A, T, ntx) ==
    IF ~transactions_insert_policy(uid, row, A)
    THEN [err |-> RlsError, txs |-> T, ntx |-> ntx]
    ELSE [err |-> NoError, txs |-> T @@ (ntx :> row), ntx |-> ntx + 1]

\* Mutant: the delete without .eq("type", "payment").
deletePayment_any_type(uid, id, T) ==
    IF \/ id \notin DOMAIN T
       \/ ~transactions_select_policy(uid, T[id])
       \/ ~transactions_delete_policy(uid, T[id])
    THEN [err |-> NoError, txs |-> T]
    ELSE [err |-> NoError, txs |-> [t \in DOMAIN T \ {id} |-> T[t]]]

\* supabase.from("transactions").delete().eq("id", id).eq("type", "payment")
deletePayment(uid, id, T) ==
    IF \/ id \notin DOMAIN T
       \/ T[id].type # "payment"
       \/ ~transactions_select_policy(uid, T[id])
       \/ ~transactions_delete_policy(uid, T[id])
    THEN [err |-> NoError, txs |-> T]
    ELSE [err |-> NoError, txs |-> [t \in DOMAIN T \ {id} |-> T[t]]]

\* supabase.from("services").update(payload).eq("id", id)
upsertService(uid, s, p, P) ==
    IF ~services_write_policy(uid) THEN P ELSE [P EXCEPT ![s] = p]

\* ------------------------------------------------------------------------
\* Handlers
\* ------------------------------------------------------------------------
Starts == 0 .. MaxStart
Durations == 1 .. MaxDur
Prices == 1 .. MaxPrice
Amounts == 1 .. MaxPrice

Reply(op, err) == [op |-> op, err |-> err, failed |-> <<>>]

NoRequests == [c \in {"k1", "k2"} |-> [pc |-> "idle"]]

Init ==
    /\ appointments = <<>>
    /\ transactions = <<>>
    /\ price \in [Services -> Prices]
    /\ nextApptId = 1
    /\ nextTxId = 1
    /\ last = Reply("none", NoError)
    /\ req = NoRequests

\* BusinessCalendar.upsertMutation, not editing, recurring_enabled = false
CreateAppointment(uid, child, spec, svc, start, dur, status) ==
    /\ LET row == [child_id |-> child, specialist_id |-> spec,
                   service_id |-> svc, start_time |-> start,
                   end_time |-> start + dur, status |-> status,
                   is_recurring |-> FALSE, recurrence_group_id |-> NullId]
           res == insertAppointmentRows(uid, row, appointments, nextApptId)
       IN  /\ appointments' = res.appts
           /\ nextApptId' = IF res.err.code = "ok"
                            THEN nextApptId + 1 ELSE nextApptId
           /\ last' = Reply("create", res.err)
    /\ UNCHANGED <<transactions, price, nextTxId, req>>

\* BusinessCalendar.upsertMutation, editing an existing appointment
EditAppointment(uid, id, child, spec, svc, start, dur, status) ==
    /\ id \in DOMAIN appointments
    /\ LET new == [appointments[id] EXCEPT
                      !.child_id = child, !.specialist_id = spec,
                      !.service_id = svc, !.start_time = start,
                      !.end_time = start + dur, !.status = status]
           res == updateAppointment(uid, id, new, TRUE, appointments,
                                    transactions, nextTxId, price)
       IN  /\ res.ntx <= MaxTx + 1
           /\ appointments' = res.appts
           /\ transactions' = res.txs
           /\ nextTxId' = res.ntx
           /\ last' = Reply("edit", res.err)
    /\ UNCHANGED <<price, nextApptId, req>>

\* Mutant: the catch branch does not call arg.revert().
DragReply_without_revert(op, err) ==
    [op |-> op, err |-> err, failed |-> <<>>, reverted |-> FALSE,
     message |-> IF err.code = "ok" THEN "none"
                 ELSE IF isConflictError(err) THEN "conflict"
                 ELSE "failed"]

\* what handleEventDrop and handleEventResize leave in the calendar: on an
\* error the catch branch calls arg.revert(), which puts the event back on
\* its previous interval, and shows the conflict message or the generic one.
DragReply(op, err) ==
    [op |-> op, err |-> err, failed |-> <<>>,
     reverted |-> err.code # "ok",
     message |-> IF err.code = "ok" THEN "none"
                 ELSE IF isConflictError(err) THEN "conflict"
                 ELSE "failed"]

\* BusinessCalendar.handleEventDrop: the event keeps its duration
handleEventDrop(uid, id, start) ==
    /\ id \in DOMAIN appointments
    /\ LET old == appointments[id]
           new == [old EXCEPT !.start_time = start,
                              !.end_time = start + (old.end_time - old.start_time)]
           res == updateAppointment(uid, id, new, FALSE, appointments,
                                    transactions, nextTxId, price)
       IN  /\ appointments' = res.appts
           /\ transactions' = res.txs
           /\ nextTxId' = res.ntx
           /\ last' = DragReply("drop", res.err)
    /\ UNCHANGED <<price, nextApptId, req>>

\* BusinessCalendar.handleEventResize: the event keeps its start
handleEventResize(uid, id, dur) ==
    /\ id \in DOMAIN appointments
    /\ LET old == appointments[id]
           new == [old EXCEPT !.end_time = old.start_time + dur]
           res == updateAppointment(uid, id, new, FALSE, appointments,
                                    transactions, nextTxId, price)
       IN  /\ appointments' = res.appts
           /\ transactions' = res.txs
           /\ nextTxId' = res.ntx
           /\ last' = DragReply("resize", res.err)
    /\ UNCHANGED <<price, nextApptId, req>>

\* BusinessCalendar.deleteMutation
DeleteAppointment(uid, id) ==
    /\ id \in DOMAIN appointments
    /\ LET res == deleteAppointment(uid, id, appointments, transactions)
       IN  /\ appointments' = res.appts
           /\ transactions' = res.txs
           /\ last' = Reply("delete", res.err)
    /\ UNCHANGED <<price, nextApptId, nextTxId, req>>

\* FinanceManager.addPaymentMutation
RecordPayment(uid, child, amount, date) ==
    /\ LET row == [child_id |-> child, appointment_id |-> NullId,
                   amount |-> amount, type |-> "payment", date |-> date]
           res == insertPayment(uid, row, appointments, transactions, nextTxId)
       IN  /\ transactions' = res.txs
           /\ nextTxId' = res.ntx
           /\ last' = Reply("pay", res.err)
    /\ UNCHANGED <<appointments, price, nextApptId, req>>

\* FinanceManager.deletePaymentMutation
DeletePayment(uid, id) ==
    /\ id \in DOMAIN transactions
    /\ LET res == deletePayment(uid, id, transactions)
       IN  /\ transactions' = res.txs
           /\ last' = Reply("unpay", res.err)
    /\ UNCHANGED <<appointments, price, nextApptId, nextTxId, req>>

\* ServicesManager.upsertMutation on an existing service: a new price
EditService(uid, s, p) ==
    /\ price' = upsertService(uid, s, p, price)
    /\ last' = Reply("service", NoError)
    /\ UNCHANGED <<appointments, transactions, nextApptId, nextTxId, req>>

\* ------------------------------------------------------------------------
\* Dates.  A tick is a time of the calendar grid, TicksPerDay ticks to a day;
\* day 0 is Monday 2025-01-06.  Texts are sequences of characters.
\* ------------------------------------------------------------------------
DayOf(t) == t \div TicksPerDay
TimeOfDay(t) == t % TicksPerDay

\* Date.getDay(): 0 is Sunday, 1 is Monday
getDay(day) == (day + 1) % 7

DigitChars == <<"0", "1", "2", "3", "4", "5", "6", "7", "8", "9">>

IsDigit(c) == \E k \in 1 .. 10 : DigitChars[k] = c

DigitOf(c) == (CHOOSE k \in 1 .. 10 : DigitChars[k] = c) - 1

\* the YYYY-MM-DD text of a day of the model (an <input type="date"> value)
DateText(day) ==
    <<"2", "0", "2", "5", "-", "0", "1", "-",
      DigitChars[((6 + day) \div 10) + 1], DigitChars[((6 + day) % 10) + 1]>>

\* the text that the pattern of parseDateYYYYMMDD accepts
EscapedText ==
    <<"\\", "d", "d", "d", "d", "-", "\\", "d", "d", "-", "\\", "d", "d">>

RECURSIVE DigitsValue(_)
DigitsValue(g) ==
    IF Len(g) = 0 THEN 0
    ELSE 10 * DigitsValue(SubSeq(g, 1, Len(g) - 1)) + DigitOf(g[Len(g)])

\* Number(text): NaN unless the text is a decimal numeral
Number(g) ==
    IF Len(g) > 0 /\ \A k \in 1 .. Len(g) : IsDigit(g[k])
    THEN [nan |-> FALSE, val |-> DigitsValue(g)]
    ELSE [nan |-> TRUE]

RECURSIVE trim(_)
trim(v) ==
    IF Len(v) > 0 /\ v[1] = " " THEN trim(Tail(v))
    ELSE IF Len(v) > 0 /\ v[Len(v)] = " " THEN trim(SubSeq(v, 1, Len(v) - 1))
    ELSE v

\* /^(\\d{4})-(\\d{2})-(\\d{2})$/ : in a regular-expression literal "\\" is
\* one backslash character and "d{4}" is four letters d.
DatePatternMatches(s) ==
    /\ Len(s) = 13
    /\ s[1] = "\\" /\ \A k \in 2 .. 5 : s[k] = "d"
    /\ s[6] = "-"
    /\ s[7] = "\\" /\ \A k \in 8 .. 9 : s[k] = "d"
    /\ s[10] = "-"
    /\ s[11] = "\\" /\ \A k \in 12 .. 13 : s[k] = "d"

\* new Date(year, month - 1, day, 0, 0, 0, 0) as a day of the model; the
\* order of dates is kept, and it is exact within January 2025.
DayOfDate(year, month, day) ==
    (year - 2025) * 372 + (month - 1) * 31 + (day - 6)

NoDate == [ok |-> FALSE]

parseDateYYYYMMDD(v) ==
    LET s == trim(v)
    IN  IF ~DatePatternMatches(s) THEN NoDate
        ELSE LET year == Number(SubSeq(s, 1, 5))
                 month == Number(SubSeq(s, 7, 9))
                 day == Number(SubSeq(s, 11, 13))
             IN  IF year.nan \/ month.nan \/ day.nan THEN NoDate
                 ELSE [ok |-> TRUE,
                       day |-> DayOfDate(year.val, month.val, day.val)]

RECURSIVE OccurrenceLoop(_, _, _, _, _)
OccurrenceLoop(d, until, start, weekdays, out) ==
    IF d > until THEN out
    ELSE IF getDay(d) \notin weekdays
    THEN OccurrenceLoop(d + 1, until, start, weekdays, out)
    ELSE LET occ == d * TicksPerDay + TimeOfDay(start)
         IN  IF occ < start
             THEN OccurrenceLoop(d + 1, until, start, weekdays, out)
             ELSE OccurrenceLoop(d + 1, until, start, weekdays,
                                 Append(out, occ))

\* Mutant: the seed start is not added when the loop did not produce it.
buildOccurrences_without_seed(start, until, weekdays) ==
    OccurrenceLoop(DayOf(start), until, start, weekdays, <<>>)

\* Mutant: a seed the loop did not produce is pushed at the end, not
\* unshifted to the front.
buildOccurrences_seed_last(start, until, weekdays) ==
    LET out == OccurrenceLoop(DayOf(start), until, start, weekdays, <<>>)
    IN  IF \E k \in 1 .. Len(out) : out[k] = start
        THEN out ELSE Append(out, start)

\* buildOccurrences({start, until, weekdays}): until is a day
buildOccurrences(start, until, weekdays) ==
    LET out == OccurrenceLoop(DayOf(start), until, start, weekdays, <<>>)
    IN  IF \E k \in 1 .. Len(out) : out[k] = start
        THEN out ELSE <<start>> \o out

\* appointmentSchema.superRefine, for recurring_enabled = true: the issues
\* that keep the form from calling the mutation
appointmentSchemaIssues(start, weekdays, untilText) ==
    LET until == IF Len(untilText) > 0
                 THEN parseDateYYYYMMDD(untilText) ELSE NoDate
    IN  (IF ~until.ok THEN {"no_until"}
         ELSE IF until.day < DayOf(start) THEN {"until_before_start"}
         ELSE {})
        \cup (IF weekdays = {} THEN {"no_weekdays"} ELSE {})

FormIssue == [code |-> "", message |-> "form validation"]
NoUntilError == [code |-> "", message |-> "no end date"]
PartialSeriesError == [code |-> "", message |-> "series created partially"]

\* the loop of BusinessCalendar.upsertMutation over the occurrences
\* occs[k..]: one insert per occurrence; a conflict is collected and the
\* loop goes on, any other error ends the mutation.  `sent` are the
\* occurrences handed to insertAppointmentRows, in order.
RECURSIVE InsertSeries(_, _, _, _, _, _, _)
InsertSeries(uid, template, occs, k, A, nid, failed) ==
    IF k > Len(occs)
    THEN [err |-> IF Len(failed) > 0 THEN PartialSeriesError ELSE NoError,
          appts |-> A, nid |-> nid, failed |-> failed, sent |-> occs]
    ELSE LET row == [template EXCEPT
                        !.start_time = occs[k],
                        !.end_time = occs[k]
                            + (template.end_time - template.start_time)]
             res == insertAppointmentRows(uid, row, A, nid)
         IN  IF res.err.code = "ok"
             THEN InsertSeries(uid, template, occs, k + 1, res.appts,
                               nid + 1, failed)
             ELSE IF isConflictError(res.err)
             THEN InsertSeries(uid, template, occs, k + 1, A, nid,
                               Append(failed, occs[k]))
             ELSE [err |-> res.err, appts |-> A, nid |-> nid,
                   failed |-> failed, sent |-> SubSeq(occs, 1, k)]

\* BusinessCalendar form submit with recurring_enabled = true
SubmitRecurring(uid, child, spec, svc, start, dur, status, weekdays, untilText) ==
    /\ LET template == [child_id |-> child, specialist_id |-> spec,
                        service_id |-> svc, start_time |-> start,
                        end_time |-> start + dur, status |-> status,
                        is_recurring |-> TRUE,
                        recurrence_group_id |-> nextApptId]
           stay == [err |-> FormIssue, appts |-> appointments,
                    nid |-> nextApptId, failed |-> <<>>, sent |-> <<>>]
           untilDay == IF Len(untilText) > 0
                       THEN parseDateYYYYMMDD(untilText) ELSE NoDate
           res == IF appointmentSchemaIssues(start, weekdays, untilText) # {}
                  THEN stay
                  ELSE IF ~untilDay.ok
                  THEN [stay EXCEPT !.err = NoUntilError]
                  ELSE InsertSeries(uid, template,
                           buildOccurrences(start, untilDay.day, weekdays),
                           1, appointments, nextApptId, <<>>)
       IN  /\ appointments' = res.appts
           /\ nextApptId' = res.nid
           /\ last' = [op |-> "recurring", err |-> res.err,
                       failed |-> res.failed, sent |-> res.sent]
    /\ UNCHANGED <<transactions, price, nextTxId, req>>

\* The appointment handlers, with their inputs drawn from the given sets:
\* at most `cap` rows ever inserted, callers U, children C, specialists S,
\* start ticks T0, a calendar window that ends at tick `horizon`, statuses St.
CalendarStep(cap, U, C, S, T0, horizon, St) ==
    \/ /\ nextApptId <= cap
       /\ \E uid \in U, child \in C, spec \in S, svc \in Services,
             start \in T0, status \in St :
             \E dur \in 1 .. (horizon - start) :
               CreateAppointment(uid, child, spec, svc, start, dur, status)
    \/ \E uid \in U, id \in 1 .. cap, child \in C, spec \in S,
          svc \in Services, start \in T0, status \in St :
          \E dur \in 1 .. (horizon - start) :
            EditAppointment(uid, id, child, spec, svc, start, dur, status)
    \/ \E uid \in U, id \in 1 .. cap, start \in T0 :
            handleEventDrop(uid, id, start)
    \/ \E uid \in U, id \in 1 .. cap, dur \in 1 .. horizon :
            handleEventResize(uid, id, dur)
    \/ \E uid \in U, id \in 1 .. cap : DeleteAppointment(uid, id)

\* The ledger and price handlers.
LedgerStep(U, C) ==
    \/ /\ nextTxId <= MaxTx
       /\ \E uid \in U, child \in C, amount \in Amounts :
            RecordPayment(uid, child, amount, 0)
    \/ \E uid \in U, id \in 1 .. MaxTx : DeletePayment(uid, id)

PriceStep(U) ==
    \E uid \in U, s \in Services, p \in Prices : EditService(uid, s, p)

\* ------------------------------------------------------------------------
\* Spec: the lifecycle of one appointment and its charge.  Every child,
\* specialist, interval of the window and status; the price changes.
\* ------------------------------------------------------------------------
SpecUsers == {"adm", "t1"}

Next ==
    \/ CalendarStep(MaxBilled, SpecUsers, Children, Specialists,
                    0 .. MaxStart, MaxStart + 1, AppointmentStatus)
    \/ PriceStep(SpecUsers)

Spec == Init /\ [][Next]_vars

\* ------------------------------------------------------------------------
\* SpecOverlap: double booking.  Two children, two specialists, every
\* interval of the window; the statuses are the ones the exclusion
\* constraints tell apart (canceled or not).
\* ------------------------------------------------------------------------
OverlapStatuses == {"confirmed", "canceled"}

InitFixedPrice ==
    /\ appointments = <<>>
    /\ transactions = <<>>
    /\ price = [s \in Services |-> 1]
    /\ nextApptId = 1
    /\ nextTxId = 1
    /\ last = Reply("none", NoError)
    /\ req = NoRequests

NextOverlap ==
    CalendarStep(MaxAppt, SpecUsers, Children, Specialists, 0 .. MaxStart,
                 MaxStart + 1, OverlapStatuses)

SpecOverlap == InitFixedPrice /\ [][NextOverlap]_vars

\* ------------------------------------------------------------------------
\* SpecReopen: an appointment that leaves and re-enters "completed" while
\* its slot is booked again.  One specialist, one interval.
\* ------------------------------------------------------------------------
ReopenStatuses == {"confirmed", "canceled", "completed"}

NextReopen ==
    \/ CalendarStep(MaxAppt, SpecUsers, Children, {"t1"}, {0}, 1,
                    ReopenStatuses)
    \/ PriceStep(SpecUsers)

SpecReopen == Init /\ [][NextReopen]_vars

\* ------------------------------------------------------------------------
\* SpecSeries: recurring requests against a calendar that holds a booking
\* ------------------------------------------------------------------------
WeekdaySets == SUBSET {1, 2}

UntilTexts == {<<>>, EscapedText} \cup {DateText(d) : d \in 0 .. MaxUntilDay}

SeriesStep(U, C, S, T0, St) ==
    \E uid \in U, child \in C, spec \in S, svc \in Services, start \in T0,
       dur \in Durations, status \in St, weekdays \in WeekdaySets,
       untilText \in UntilTexts :
         SubmitRecurring(uid, child, spec, svc, start, dur, status,
                         weekdays, untilText)

NextSeries ==
    \/ CalendarStep(MaxBilled, SpecUsers, Children, Specialists,
                    0 .. MaxStart, MaxStart + 1, OverlapStatuses)
    \/ SeriesStep(SpecUsers, Children, Specialists, 0 .. MaxStart,
                  OverlapStatuses)

SpecSeries == InitFixedPrice /\ [][NextSeries]_vars

\* ------------------------------------------------------------------------
\* Reads under row-level security, and a write that is decided by
\* can_write_child alone
\* ------------------------------------------------------------------------
\* fetchAppointments(range): the rows the select policy shows that meet
\* [rangeStart, rangeEnd)
fetchAppointments(uid, rangeStart, rangeEnd, A) ==
    {id \in DOMAIN A : /\ appointments_select_policy(uid, A[id])
                       /\ A[id].start_time < rangeEnd
                       /\ A[id].end_time > rangeStart}

\* fetchChildTransactions(childId)
fetchChildTransactions(uid, child, T) ==
    {t \in DOMAIN T : /\ transactions_select_policy(uid, T[t])
                      /\ T[t].child_id = child}

\* the sum of the amounts of the rows `rows` of T
RECURSIVE SumAmounts(_, _)
SumAmounts(rows, T) ==
    IF rows = {} THEN 0
    ELSE LET t == CHOOSE x \in rows : TRUE
         IN  T[t].amount + SumAmounts(rows \ {t}, T)

\* Mutant: the balance taken as charges minus payments.
totals_reversed(rows, T) ==
    LET charges == SumAmounts({t \in rows : T[t].type = "charge"}, T)
        payments == SumAmounts({t \in rows : T[t].type # "charge"}, T)
    IN  [charges |-> charges, payments |-> payments,
         balance |-> charges - payments]

\* FinanceManager.totals over the fetched transactions of the chosen child
totals(rows, T) ==
    LET charges == SumAmounts({t \in rows : T[t].type = "charge"}, T)
        payments == SumAmounts({t \in rows : T[t].type # "charge"}, T)
    IN  [charges |-> charges, payments |-> payments,
         balance |-> payments - charges]

\* policy children_select_by_access, as fetchChildrenLite meets it
fetchChildrenLite(uid) == {c \in Children : can_read_child(uid, c)}

\* policy daily_logs_insert_by_therapist_or_admin
daily_logs_insert_policy(uid, child) == can_write_child(uid, child)

ReadReply(op, uid, arg, rows) ==
    [op |-> op, err |-> NoError, failed |-> <<>>, uid |-> uid, arg |-> arg,
     rows |-> rows]

ReadAppointments(uid, rangeStart, rangeEnd) ==
    /\ last' = ReadReply("appointments", uid, <<rangeStart, rangeEnd>>,
                  fetchAppointments(uid, rangeStart, rangeEnd, appointments))
    /\ UNCHANGED <<appointments, transactions, price, nextApptId, nextTxId,
                   req>>

ReadTransactions(uid, child) ==
    /\ last' = ReadReply("transactions", uid, child,
                  fetchChildTransactions(uid, child, transactions))
    /\ UNCHANGED <<appointments, transactions, price, nextApptId, nextTxId,
                   req>>

ReadChildren(uid) ==
    /\ last' = ReadReply("children", uid, "all", fetchChildrenLite(uid))
    /\ UNCHANGED <<appointments, transactions, price, nextApptId, nextTxId,
                   req>>

\* insert into public.daily_logs (child_id, ...): the policy's verdict; the
\* rows of daily_logs are not part of this model's state
InsertDailyLog(uid, child) ==
    /\ last' = [op |-> "daily_log",
                err |-> IF daily_logs_insert_policy(uid, child)
                        THEN NoError ELSE RlsError,
                failed |-> <<>>, uid |-> uid, arg |-> child, rows |-> {}]
    /\ UNCHANGED <<appointments, transactions, price, nextApptId, nextTxId,
                   req>>

ReadStep(U, C, horizon) ==
    \/ \E uid \in U, rangeStart \in 0 .. horizon :
          \E rangeEnd \in (rangeStart + 1) .. (horizon + 1) :
            ReadAppointments(uid, rangeStart, rangeEnd)
    \/ \E uid \in U, child \in C : ReadTransactions(uid, child)
    \/ \E uid \in U : ReadChildren(uid)
    \/ \E uid \in U, child \in C : InsertDailyLog(uid, child)

\* ------------------------------------------------------------------------
\* SpecAccess: every kind of caller (admin, manager, assigned and covering
\* specialist, guardian, a user without a profile) against one appointment,
\* its charge and the payments.
\* ------------------------------------------------------------------------
AccessStatuses == {"confirmed", "completed"}

\* the callers that write: an admin, the assigned specialist, a covering
\* specialist and the guardian
AccessWriters == {"adm", "t1", "t2", "par"}

NextAccess ==
    \/ CalendarStep(MaxBilled, AccessWriters, Children, Specialists, {0}, 1,
                    AccessStatuses)
    \/ LedgerStep({"adm", "par"}, Children)
    \/ ReadStep(Users, Children, 1)

SpecAccess == InitFixedPrice /\ [][NextAccess]_vars

\* ------------------------------------------------------------------------
\* SpecNoProfile: an authenticated caller without a row in public.profiles
\* next to an administrator, on one child and one specialist.
\* ------------------------------------------------------------------------
NoProfileCallers == {"adm", "ghost"}

NextNoProfile ==
    \/ CalendarStep(MaxBilled, NoProfileCallers, {"c1"}, {"t1"}, {0}, 1,
                    AccessStatuses)
    \/ LedgerStep(NoProfileCallers, {"c1"})

SpecNoProfile == InitFixedPrice /\ [][NextNoProfile]_vars

\* ------------------------------------------------------------------------
\* SpecExpand: buildOccurrences on its own.  Client k1 holds a recurrence
\* form (seed start, end day, weekdays); ExpandSeries applies the function.
\* ------------------------------------------------------------------------
AllWeekdays == {getDay(d) : d \in 0 .. 6}

InitExpand ==
    /\ appointments = <<>>
    /\ transactions = <<>>
    /\ price = [s \in Services |-> 1]
    /\ nextApptId = 1
    /\ nextTxId = 1
    /\ last = Reply("none", NoError)
    /\ \E start \in 0 .. MaxSeedTick, until \in 0 .. MaxSeriesDay,
          weekdays \in SUBSET AllWeekdays :
          req = [NoRequests EXCEPT !["k1"] =
                    [pc |-> "form", start |-> start, until |-> until,
                     weekdays |-> weekdays]]

ExpandSeries(c) ==
    /\ req[c].pc = "form"
    /\ req' = [req EXCEPT ![c] =
                 [pc |-> "expanded", start |-> req[c].start,
                  until |-> req[c].until, weekdays |-> req[c].weekdays,
                  occs |-> buildOccurrences(req[c].start, req[c].until,
                                            req[c].weekdays)]]
    /\ UNCHANGED <<appointments, transactions, price, nextApptId, nextTxId,
                   last>>

NextExpand == \E c \in {"k1", "k2"} : ExpandSeries(c)

SpecExpand == InitExpand /\ [][NextExpand]_vars

\* ------------------------------------------------------------------------
\* SpecRace: two calendar clients create an appointment at the same time.
\* The create branch of upsertMutation is split where it awaits the store:
\* SendCreate is the handler up to the await, StoreInsert the insert
\* statement, which the store runs as one transaction.
\* ------------------------------------------------------------------------
Clients == {"k1", "k2"}

SendCreate(c, uid, child, spec, svc, start, dur, status) ==
    /\ req[c].pc = "idle"
    /\ req' = [req EXCEPT ![c] =
                 [pc |-> "sent", uid |-> uid,
                  row |-> [child_id |-> child, specialist_id |-> spec,
                           service_id |-> svc, start_time |-> start,
                           end_time |-> start + dur, status |-> status,
                           is_recurring |-> FALSE,
                           recurrence_group_id |-> NullId],
                  raced |-> \E o \in Clients \ {c} : req[o].pc = "sent"]]
    /\ UNCHANGED <<appointments, transactions, price, nextApptId, nextTxId,
                   last>>

StoreInsert(c) ==
    /\ req[c].pc = "sent"
    /\ LET res == insertAppointmentRows(req[c].uid, req[c].row,
                                        appointments, nextApptId)
       IN  /\ appointments' = res.appts
           /\ nextApptId' = IF res.err.code = "ok"
                            THEN nextApptId + 1 ELSE nextApptId
           /\ req' = [req EXCEPT ![c] =
                        [pc |-> "done", uid |-> req[c].uid,
                         row |-> req[c].row, raced |-> req[c].raced,
                         err |-> res.err,
                         id |-> IF res.err.code = "ok"
                                THEN nextApptId ELSE NullId]]
           /\ last' = Reply("create", res.err)
    /\ UNCHANGED <<transactions, price, nextTxId>>

NextRace ==
    \/ \E c \in Clients, uid \in SpecUsers, child \in Children,
          spec \in Specialists, svc \in Services, start \in 0 .. MaxStart,
          status \in OverlapStatuses :
          \E dur \in 1 .. (MaxStart + 1 - start) :
            SendCreate(c, uid, child, spec, svc, start, dur, status)
    \/ \E c \in Clients : StoreInsert(c)

SpecRace == InitFixedPrice /\ [][NextRace]_vars

\* ========================================================================
\* Properties
\* ========================================================================
Live(A) == {o \in DOMAIN A : A[o].status # "canceled"}

\* [s0, e0) and [s1, e1) have a tick in common
Intersect(s0, e0, s1, e1) ==
    LET lo == IF s0 > s1 THEN s0 ELSE s1
        hi == IF e0 < e1 THEN e0 ELSE e1
    IN  lo < hi

\* a non-canceled row of A other than `id` that shares the child or the
\* specialist and whose half-open interval meets [s0, e0)
Blocked(A, id, child, spec, s0, e0) ==
    \E o \in Live(A) \ {id} :
        /\ A[o].child_id = child \/ A[o].specialist_id = spec
        /\ Intersect(A[o].start_time, A[o].end_time, s0, e0)

Elevated == {"adm", "mgr"}

ChargesOf(T, id) ==
    {t \in DOMAIN T : T[t].type = "charge" /\ T[t].appointment_id = id}

\* C1: in every reachable state no two distinct non-canceled appointments
\* that share a specialist have intersecting [start, end) intervals, and no
\* two that share a child.
C1_NoDoubleBooking ==
    \A a \in Live(appointments), b \in Live(appointments) :
        ( /\ a # b
          /\ \/ appointments[a].specialist_id = appointments[b].specialist_id
             \/ appointments[a].child_id = appointments[b].child_id )
        => ~Intersect(appointments[a].start_time, appointments[a].end_time,
                      appointments[b].start_time, appointments[b].end_time)

\* C1 witness: two non-canceled appointments of one child with different
\* specialists stand side by side, and the store has just refused a write
\* with the child's exclusion constraint.
C1_Witness ==
    /\ last.err = ChildOverlapError
    /\ \E a \in Live(appointments), b \in Live(appointments) :
          /\ a # b
          /\ appointments[a].child_id = appointments[b].child_id
          /\ appointments[a].specialist_id # appointments[b].specialist_id

\* C9: when appointment A is canceled, a CreateAppointment by an elevated
\* caller of a row B for A's child and specialist whose interval meets A's
\* succeeds and B is stored, provided B meets no non-canceled appointment of
\* that child or that specialist: no such request is answered with an error,
\* and a create that succeeds adds its row and changes no other.
C9_RebookAfterCancel ==
    [][last'.op = "create" =>
         IF last'.err.code = "ok"
         THEN /\ DOMAIN appointments' = DOMAIN appointments \cup {nextApptId}
              /\ \A o \in DOMAIN appointments :
                     appointments'[o] = appointments[o]
         ELSE \A uid \in Elevated, child \in Children, spec \in Specialists,
                 start \in 0 .. MaxStart, dur \in 1 .. MaxDur,
                 status \in AppointmentStatus :
                 ~ /\ \E a \in DOMAIN appointments :
                         /\ appointments[a].status = "canceled"
                         /\ appointments[a].child_id = child
                         /\ appointments[a].specialist_id = spec
                         /\ Intersect(appointments[a].start_time,
                                      appointments[a].end_time,
                                      start, start + dur)
                   /\ ~Blocked(appointments, NullId, child, spec,
                               start, start + dur)
                   /\ CreateAppointment(uid, child, spec, "s1", start, dur,
                                        status)
      ]_vars

\* C9 witness: the last handler created a non-canceled appointment B that
\* shares child, specialist and a tick with a canceled appointment A.
C9_Witness ==
    /\ last.op = "create" /\ last.err.code = "ok"
    /\ nextApptId - 1 \in Live(appointments)
    /\ \E a \in DOMAIN appointments :
          LET A == appointments[a]
              B == appointments[nextApptId - 1]
          IN  /\ A.status = "canceled"
              /\ A.child_id = B.child_id /\ A.specialist_id = B.specialist_id
              /\ Intersect(A.start_time, A.end_time, B.start_time, B.end_time)

\* ------------------------------------------------------------------------
\* Two requests that raced: both were in flight together, both come from an
\* elevated caller, name the same specialist and meet in a tick.
RaceCase ==
    /\ \A c \in Clients : req[c].pc = "done" /\ req[c].uid \in Elevated
    /\ \E c \in Clients : req[c].raced
    /\ req["k1"].row.specialist_id = req["k2"].row.specialist_id
    /\ Intersect(req["k1"].row.start_time, req["k1"].row.end_time,
                 req["k2"].row.start_time, req["k2"].row.end_time)

\* exactly one request is stored, the other got the conflict error
OneWinner ==
    \E w \in Clients :
        /\ req[w].err.code = "ok"
        /\ DOMAIN appointments = {req[w].id}
        /\ appointments[req[w].id] = req[w].row
        /\ \A l \in Clients \ {w} :
              req[l].err.code = "23P01" /\ isConflictError(req[l].err)

C3_OneChargePerAppointment ==
    \A id \in 1 .. nextApptId :
        Cardinality(ChargesOf(transactions, id)) <= 1

\* C3 witness: a completed appointment was charged at an earlier price and
\* the last handler has written it again: a repeated status write.
C3_Witness ==
    /\ last.op = "edit" /\ last.err.code = "ok"
    /\ \E id \in DOMAIN appointments :
          /\ DOMAIN appointments = {id}
          /\ appointments[id].status = "completed"
          /\ Cardinality(ChargesOf(transactions, id)) = 1
          /\ \A t \in ChargesOf(transactions, id) :
                transactions[t].amount # price[appointments[id].service_id]

\* C4: an update that moves an appointment without a charge from a
\* non-completed status to completed adds exactly one transaction: a charge
\* for the appointment's child, referencing the appointment, for the
\* service's price at that moment, dated at the appointment's end time.
C4_ChargeOnCompletion ==
    [][\A id \in DOMAIN appointments \cap DOMAIN appointments' :
          ( /\ appointments[id].status # "completed"
            /\ appointments'[id].status = "completed"
            /\ ChargesOf(transactions, id) = {} )
          => \E t \in DOMAIN transactions' \ DOMAIN transactions :
                /\ DOMAIN transactions' = DOMAIN transactions \cup {t}
                /\ \A o \in DOMAIN transactions :
                      transactions'[o] = transactions[o]
                /\ transactions'[t].type = "charge"
                /\ transactions'[t].appointment_id = id
                /\ transactions'[t].child_id = appointments'[id].child_id
                /\ transactions'[t].amount = price[appointments'[id].service_id]
                /\ transactions'[t].date = appointments'[id].end_time
      ]_vars

\* C4 witness: the last handler completed an appointment and its charge, the
\* newest transaction, carries the row's child, the current price and the
\* row's end time.
C4_Witness ==
    /\ last.op = "edit" /\ last.err.code = "ok"
    /\ \E id \in DOMAIN appointments :
          /\ appointments[id].status = "completed"
          /\ ChargesOf(transactions, id) = {nextTxId - 1}
          /\ transactions[nextTxId - 1].child_id = appointments[id].child_id
          /\ transactions[nextTxId - 1].amount = price[appointments[id].service_id]
          /\ transactions[nextTxId - 1].date = appointments[id].end_time

\* C6: in every reachable state every appointment whose status is completed
\* has exactly one charge transaction referencing it.
C6_CompletedIsCharged ==
    \A id \in DOMAIN appointments :
        appointments[id].status = "completed"
            => Cardinality(ChargesOf(transactions, id)) = 1

\* C7: the status write to completed and the charge insert are one step: a
\* step that takes a stored appointment into completed ends with its charge
\* present, and a statement that returns an error changes neither the
\* appointments nor the transactions.
C7_AtomicCompletion ==
    [][ /\ \A id \in DOMAIN appointments \cap DOMAIN appointments' :
             ( /\ appointments[id].status # "completed"
               /\ appointments'[id].status = "completed" )
             => ChargesOf(transactions', id) # {}
        /\ last'.err.code # "ok" =>
             appointments' = appointments /\ transactions' = transactions
      ]_vars

\* C7 witness: the last handler wrote completed and the newest transaction
\* is the appointment's charge.
C7_Witness ==
    /\ last.op = "edit" /\ last.err.code = "ok"
    /\ \E id \in DOMAIN appointments :
          /\ appointments[id].status = "completed"
          /\ nextTxId - 1 \in ChargesOf(transactions, id)

LifecycleEdges ==
    {<<"pending", "confirmed">>, <<"pending", "canceled">>,
     <<"confirmed", "completed">>, <<"confirmed", "canceled">>,
     <<"confirmed", "no_show">>}

\* C8: an update changes the status of an appointment only along the edges
\* pending -> confirmed, pending -> canceled, confirmed -> completed,
\* confirmed -> canceled, confirmed -> no_show.
C8_LifecycleEdges ==
    [][\A id \in DOMAIN appointments \cap DOMAIN appointments' :
          appointments[id].status # appointments'[id].status
            => <<appointments[id].status, appointments'[id].status>>
                  \in LifecycleEdges
      ]_vars

SeriesStarts(start, untilDay, weekdays) ==
    {start} \cup {d * TicksPerDay + TimeOfDay(start) :
                    d \in {x \in DayOf(start) .. untilDay :
                             getDay(x) \in weekdays}}

\* C10: in a recurring request the occurrences that conflict with no
\* existing appointment are all stored, and exactly the conflicting start
\* times are recorded as failures.
C10_PartialSeries ==
    [][last'.op = "recurring" =>
         \A uid \in Elevated, child \in Children, spec \in Specialists,
            start \in 0 .. MaxStart, dur \in 1 .. MaxDur,
            weekdays \in WeekdaySets \ {{}}, untilDay \in 0 .. MaxUntilDay :
            ( /\ untilDay >= DayOf(start)
              /\ SubmitRecurring(uid, child, spec, "s1", start, dur,
                                 "confirmed", weekdays, DateText(untilDay)) )
            => LET occs == SeriesStarts(start, untilDay, weekdays)
                   conflicting ==
                       {o \in occs : Blocked(appointments, NullId, child,
                                             spec, o, o + dur)}
               IN  /\ \A o \in occs \ conflicting :
                         \E id \in DOMAIN appointments' \ DOMAIN appointments :
                            /\ appointments'[id].start_time = o
                            /\ appointments'[id].end_time = o + dur
                            /\ appointments'[id].child_id = child
                            /\ appointments'[id].specialist_id = spec
                   /\ {last'.failed[k] : k \in 1 .. Len(last'.failed)}
                         = conflicting
      ]_vars

\* ------------------------------------------------------------------------
\* C11: buildOccurrences returns exactly the seed start plus, for every day
\* from the seed's day through the end day whose weekday is selected, that
\* day at the seed's time of day, each once; the seed is included even when
\* its weekday is not selected.
C11_Occurrences ==
    \A c \in {"k1", "k2"} :
        req[c].pc = "expanded" =>
            /\ {req[c].occs[k] : k \in 1 .. Len(req[c].occs)}
                  = SeriesStarts(req[c].start, req[c].until, req[c].weekdays)
            /\ \A j, k \in 1 .. Len(req[c].occs) :
                  req[c].occs[j] = req[c].occs[k] => j = k
            /\ \E k \in 1 .. Len(req[c].occs) : req[c].occs[k] = req[c].start

\* C11 witness: the seed on Monday 2025-01-06, weekdays Tuesday and
\* Thursday, end day 2025-01-16: the seed and 01-07, 01-09, 01-14, 01-16.
C11_Witness ==
    /\ req["k1"].pc = "expanded"
    /\ DayOf(req["k1"].start) = 0
    /\ req["k1"].weekdays = {2, 4}
    /\ req["k1"].until = 10
    /\ {DayOf(req["k1"].occs[k]) : k \in 1 .. Len(req["k1"].occs)}
          = {0, 1, 3, 8, 10}
    /\ Len(req["k1"].occs) = 5

\* ------------------------------------------------------------------------
\* the outcome of a drag or resize of appointment id that met a conflict:
\* nothing stored, a conflict error, the event back on its old interval
ConflictReverted(id) ==
    /\ appointments' = appointments
    /\ appointments'[id].start_time = appointments[id].start_time
    /\ appointments'[id].end_time = appointments[id].end_time
    /\ isConflictError(last'.err)
    /\ last'.reverted
    /\ last'.message = "conflict"

\* C12: when a drag or a resize by a caller who may write the appointment
\* would make it overlap another non-canceled appointment of its child or
\* its specialist, the stored appointment keeps its start and its end, the
\* error is recognised as a conflict, and the calendar reverts the event;
\* the handler sends the update once.
C12_ConflictReverts ==
    [][last'.op \in {"drop", "resize"} =>
         \A id \in Live(appointments) :
            \A uid \in Elevated \cup {appointments[id].specialist_id} :
               /\ \A start \in 0 .. MaxStart :
                     ( /\ Blocked(appointments, id, appointments[id].child_id,
                                  appointments[id].specialist_id, start,
                                  start + appointments[id].end_time
                                        - appointments[id].start_time)
                       /\ handleEventDrop(uid, id, start) )
                     => ConflictReverted(id)
               /\ \A dur \in 1 .. MaxStart + MaxDur :
                     ( /\ Blocked(appointments, id, appointments[id].child_id,
                                  appointments[id].specialist_id,
                                  appointments[id].start_time,
                                  appointments[id].start_time + dur)
                       /\ handleEventResize(uid, id, dur) )
                     => ConflictReverted(id)
      ]_vars

\* C12 witness: two live appointments of one specialist lie side by side and
\* the last drag or resize ended in a conflict and was reverted.
C12_Witness ==
    /\ last.op \in {"drop", "resize"}
    /\ last.err.code = "23P01"
    /\ last.reverted
    /\ \E a, b \in Live(appointments) :
          /\ a # b
          /\ appointments[a].specialist_id = appointments[b].specialist_id
          /\ appointments[a].end_time = appointments[b].start_time

\* ------------------------------------------------------------------------
\* uid is the registered guardian of the child and nothing else to it
GuardianOnly(uid, child) ==
    /\ ParentOf[child] = uid
    /\ uid \notin Elevated
    /\ <<uid, child>> \notin TherapistChildren

\* the statement was refused and nothing was stored
Rejected ==
    /\ last'.err.code # "ok"
    /\ appointments' = appointments
    /\ transactions' = transactions

\* C13: for a caller who is only the guardian of a child, every write on
\* that child's appointments and payments is rejected and leaves the store
\* unchanged, and a read returns the child's appointments and transactions.
C13_GuardianReadOnly ==
    [][\A uid \in Users, child \in Children :
          GuardianOnly(uid, child) =>
            /\ last'.op = "create" =>
                 \A spec \in Specialists, start \in 0 .. MaxStart,
                    dur \in 1 .. MaxDur, status \in AppointmentStatus :
                    CreateAppointment(uid, child, spec, "s1", start, dur, status)
                       => Rejected
            /\ last'.op = "edit" =>
                 \A id \in DOMAIN appointments, spec \in Specialists,
                    start \in 0 .. MaxStart, dur \in 1 .. MaxDur,
                    status \in AppointmentStatus :
                    ( /\ appointments[id].child_id = child
                      /\ EditAppointment(uid, id, child, spec, "s1", start,
                                         dur, status) )
                       => Rejected
            /\ last'.op = "delete" =>
                 \A id \in DOMAIN appointments :
                    ( /\ appointments[id].child_id = child
                      /\ DeleteAppointment(uid, id) )
                       => Rejected
            /\ last'.op = "pay" =>
                 \A amount \in Amounts :
                    RecordPayment(uid, child, amount, 0) => Rejected
            /\ last'.op = "unpay" =>
                 \A t \in DOMAIN transactions :
                    ( /\ transactions[t].child_id = child
                      /\ DeletePayment(uid, t) )
                       => Rejected
            /\ last'.op = "appointments" =>
                 \A rangeStart \in 0 .. MaxStart + 1,
                    rangeEnd \in 1 .. MaxStart + 2 :
                    ReadAppointments(uid, rangeStart, rangeEnd)
                       => \A id \in DOMAIN appointments :
                             ( /\ appointments[id].child_id = child
                               /\ appointments[id].start_time < rangeEnd
                               /\ appointments[id].end_time > rangeStart )
                             => id \in last'.rows
            /\ last'.op = "transactions" =>
                 ( ReadTransactions(uid, child)
                      => last'.rows = {t \in DOMAIN transactions :
                                          transactions[t].child_id = child} )
      ]_vars

\* ------------------------------------------------------------------------
\* CanWrite as the specification words it: an elevated role, or a care
\* assignment to the child
SpecCanWrite(uid, child) ==
    \/ uid \in Elevated
    \/ <<uid, child>> \in TherapistChildren

\* C14: CreateAppointment is authorized exactly when CanWrite(caller, child)
\* holds: a create that meets no booked interval is stored for an elevated
\* caller and for a specialist assigned to the child, and is rejected with
\* no row written for every other caller.
C14_CreateNeedsCanWrite ==
    [][last'.op = "create" =>
         \A uid \in Users, child \in Children, spec \in Specialists,
            start \in 0 .. MaxStart, dur \in 1 .. MaxDur,
            status \in AppointmentStatus :
            ( /\ ~Blocked(appointments, NullId, child, spec, start, start + dur)
              /\ CreateAppointment(uid, child, spec, "s1", start, dur, status) )
            => IF SpecCanWrite(uid, child)
               THEN /\ last'.err.code = "ok"
                    /\ DOMAIN appointments' = DOMAIN appointments \cup {nextApptId}
               ELSE Rejected
      ]_vars

\* ------------------------------------------------------------------------
\* the step changed no field of appointment id other than its status
OnlyStatusChanged(id) ==
    /\ id \in DOMAIN appointments'
    /\ appointments'[id].child_id = appointments[id].child_id
    /\ appointments'[id].specialist_id = appointments[id].specialist_id
    /\ appointments'[id].service_id = appointments[id].service_id
    /\ appointments'[id].start_time = appointments[id].start_time
    /\ appointments'[id].end_time = appointments[id].end_time

\* C15: an update sent by a non-elevated specialist on an appointment
\* assigned to them changes at most its status: child, specialist, service,
\* start and end stay as they were.
C15_SpecialistFrame ==
    [][last'.op \in {"edit", "drop", "resize"} =>
         \A id \in DOMAIN appointments :
            LET uid == appointments[id].specialist_id
            IN  uid \notin Elevated =>
                  /\ \A child \in Children, spec \in Specialists,
                        start \in 0 .. MaxStart, dur \in 1 .. MaxDur,
                        status \in AppointmentStatus :
                        EditAppointment(uid, id, child, spec, "s1", start,
                                        dur, status)
                           => OnlyStatusChanged(id)
                  /\ \A start \in 0 .. MaxStart :
                        handleEventDrop(uid, id, start) => OnlyStatusChanged(id)
                  /\ \A dur \in 1 .. MaxDur :
                        handleEventResize(uid, id, dur) => OnlyStatusChanged(id)
      ]_vars

\* ------------------------------------------------------------------------
\* C16: a read of appointments returns to a caller exactly the rows (of the
\* requested range) for which the caller is elevated, or is the appointment's
\* specialist, or CanRead(caller, the appointment's child) holds.
C16_ReadFiltered ==
    last.op = "appointments" =>
        last.rows =
            {id \in DOMAIN appointments :
                /\ appointments[id].start_time < last.arg[2]
                /\ appointments[id].end_time > last.arg[1]
                /\ \/ last.uid \in Elevated
                   \/ appointments[id].specialist_id = last.uid
                   \/ can_read_child(last.uid, appointments[id].child_id)}

\* C16 witness: a covering specialist without an assignment to the child
\* has read their own appointment.
C16_Witness ==
    /\ last.op = "appointments"
    /\ last.uid \notin Elevated
    /\ \E id \in last.rows :
          /\ appointments[id].specialist_id = last.uid
          /\ ~can_read_child(last.uid, appointments[id].child_id)

\* the caller's role in public.profiles is administrator or manager
ElevatedRole(uid) ==
    uid \in DOMAIN Profiles /\ Profiles[uid] \in {"admin", "manager"}

\* C17: CanRead(caller, child) is true exactly when the caller's role is
\* administrator or manager, or the caller is the child's registered
\* guardian, or the caller has a care assignment to the child.
C17_CanRead ==
    last.op = "children" =>
        last.rows =
            {c \in Children : \/ ElevatedRole(last.uid)
                              \/ ParentOf[c] = last.uid
                              \/ <<last.uid, c>> \in TherapistChildren}

\* C17 witness: the guardian of c1 has read the children and got c1 alone.
C17_Witness ==
    /\ last.op = "children"
    /\ ParentOf["c1"] = last.uid
    /\ last.rows = {"c1"}

\* C18: CanWrite(caller, child) is true exactly when the caller's role is
\* administrator or manager, or the caller has a care assignment to the
\* child; a guardian alone never has it; CanWrite implies CanRead.
C18_CanWrite ==
    last.op = "daily_log" =>
        /\ last.err.code = "ok" <=>
              \/ ElevatedRole(last.uid)
              \/ <<last.uid, last.arg>> \in TherapistChildren
        /\ GuardianOnly(last.uid, last.arg) => last.err.code = "42501"
        /\ last.err.code = "ok" => last.arg \in fetchChildrenLite(last.uid)

\* C18 witness: the guardian of a child was refused a write that is decided
\* by CanWrite, while reading that child is allowed.
C18_Witness ==
    /\ last.op = "daily_log"
    /\ GuardianOnly(last.uid, last.arg)
    /\ last.err.code = "42501"
    /\ last.arg \in fetchChildrenLite(last.uid)

\* ------------------------------------------------------------------------
\* C19: DeleteAppointment removes the appointment only when the caller is
\* administrator or manager; sent by any other caller, the appointment's own
\* specialist included, it leaves the appointments as they were.
C19_DeleteElevatedOnly ==
    [][last'.op = "delete" =>
         \A uid \in Users, id \in DOMAIN appointments :
            DeleteAppointment(uid, id) =>
               IF ElevatedRole(uid)
               THEN /\ DOMAIN appointments' = DOMAIN appointments \ {id}
                    /\ \A o \in DOMAIN appointments' :
                          appointments'[o] = appointments[o]
               ELSE appointments' = appointments
      ]_vars

\* C19 witness: the only appointment ever created is still stored after a
\* DeleteAppointment was handled: a caller without the role had sent it.
C19_Witness ==
    /\ last.op = "delete"
    /\ nextApptId = 2
    /\ DOMAIN appointments = {1}

\* the balance an administrator's ledger view computes for the child
BalanceOf(child, T) ==
    totals(fetchChildTransactions("adm", child, T), T).balance

\* C20: deleting an appointment that has a charge keeps the charge, with
\* the same child, amount and date and its appointment reference null, and
\* changes no other transaction, so every child's balance is the same
\* before and after.
C20_ChargeSurvivesDelete ==
    [][last'.op = "delete" =>
         \A id \in DOMAIN appointments \ DOMAIN appointments' :
            ChargesOf(transactions, id) # {} =>
               /\ DOMAIN transactions' = DOMAIN transactions
               /\ \A t \in DOMAIN transactions :
                     transactions'[t] =
                        IF t \in ChargesOf(transactions, id)
                        THEN [transactions[t] EXCEPT !.appointment_id = NullId]
                        ELSE transactions[t]
               /\ \A child \in Children :
                     BalanceOf(child, transactions')
                        = BalanceOf(child, transactions)
      ]_vars

\* C20 witness: after a delete, a charge without an appointment reference
\* is in the ledger next to a payment, and the balance counts both.
C20_Witness ==
    /\ last.op = "delete"
    /\ DOMAIN appointments = {}
    /\ \E t, u \in DOMAIN transactions :
          /\ transactions[t].type = "charge"
          /\ transactions[t].appointment_id = NullId
          /\ transactions[u].type = "payment"
          /\ transactions[u].child_id = transactions[t].child_id
          /\ BalanceOf(transactions[t].child_id, transactions)
                = transactions[u].amount - transactions[t].amount

\* ------------------------------------------------------------------------
\* C21: DeletePayment removes a transaction only if its type is payment;
\* called with the id of a charge it leaves the transaction set unchanged.
C21_ChargesNotDeletable ==
    [][last'.op = "unpay" =>
         \A uid \in Users, t \in DOMAIN transactions :
            DeletePayment(uid, t) =>
               IF transactions[t].type = "payment"
               THEN \/ transactions' = transactions
                    \/ /\ DOMAIN transactions' = DOMAIN transactions \ {t}
                       /\ \A o \in DOMAIN transactions' :
                             transactions'[o] = transactions[o]
               ELSE transactions' = transactions
      ]_vars

\* C21 witness: the ledger holds one transaction, a charge, and it is still
\* there after DeletePayment was called with its id.
C21_Witness ==
    /\ last.op = "unpay"
    /\ nextTxId = 2
    /\ DOMAIN transactions = {1}
    /\ transactions[1].type = "charge"

\* ------------------------------------------------------------------------
\* the amounts of the child's transactions of one type among ids 1 .. n,
\* added up in the order of the ids
RECURSIVE LedgerSum(_, _, _)
LedgerSum(child, type, n) ==
    IF n = 0 THEN 0
    ELSE LedgerSum(child, type, n - 1)
         + (IF /\ n \in DOMAIN transactions
               /\ transactions[n].child_id = child
               /\ transactions[n].type = type
            THEN transactions[n].amount ELSE 0)

\* C22: for every caller who may read the child, the balance computed from
\* the current transactions has charges = the sum of the child's charge
\* amounts, payments = the sum of the child's payment amounts and balance =
\* payments - charges; it is a function of the current transaction set.
C22_ComputeBalance ==
    \A child \in Children, uid \in Users :
        can_read_child(uid, child) =>
            LET r == totals(fetchChildTransactions(uid, child, transactions),
                            transactions)
            IN  /\ r.charges = LedgerSum(child, "charge", nextTxId - 1)
                /\ r.payments = LedgerSum(child, "payment", nextTxId - 1)
                /\ r.balance = r.payments - r.charges

\* C22 witness: the fetched ledger of a child holds a payment of 2 and a
\* charge of 1 and its balance is 1.
C22_Witness ==
    /\ last.op = "transactions"
    /\ \E t, u \in last.rows :
          transactions[t].type = "charge" /\ transactions[u].type = "payment"
    /\ totals(last.rows, transactions)
          = [charges |-> 1, payments |-> 2, balance |-> 1]

\* ------------------------------------------------------------------------
\* C23: a recurring request with at least one weekday and an end date on or
\* after the seed's day submits every occurrence of its expansion to the
\* store exactly once before it returns, whatever the earlier occurrences
\* met.
C23_EveryOccurrenceSent ==
    [][last'.op = "recurring" =>
         \A uid \in Users, child \in Children, spec \in Specialists,
            start \in 0 .. MaxStart, dur \in 1 .. MaxDur,
            status \in AppointmentStatus,
            weekdays \in WeekdaySets \ {{}}, untilDay \in 0 .. MaxUntilDay :
            ( /\ untilDay >= DayOf(start)
              /\ SubmitRecurring(uid, child, spec, "s1", start, dur, status,
                                 weekdays, DateText(untilDay)) )
            => /\ {last'.sent[k] : k \in 1 .. Len(last'.sent)}
                     = SeriesStarts(start, untilDay, weekdays)
               /\ \A j, k \in 1 .. Len(last'.sent) :
                     last'.sent[j] = last'.sent[k] => j = k
      ]_vars

\* the caller has no row in public.profiles
NoProfile(uid) == uid \notin DOMAIN Profiles

\* C24: a caller with no profile row is not elevated: is_admin_or_manager
\* is false for them, their appointment and transaction inserts are refused,
\* their appointment and transaction deletes remove nothing, and the
\* transactions update policy admits them on no row.
C24_NoProfileNotElevated ==
    [][\A uid \in Users :
          NoProfile(uid) =>
            /\ ~is_admin_or_manager(uid)
            /\ \A t \in DOMAIN transactions :
                  ~transactions_update_policy(uid, transactions[t])
            /\ last'.op = "create" =>
                 \A child \in Children, spec \in Specialists,
                    start \in 0 .. MaxStart, dur \in 1 .. MaxDur,
                    status \in AppointmentStatus :
                    CreateAppointment(uid, child, spec, "s1", start, dur, status)
                       => Rejected
            /\ last'.op = "delete" =>
                 \A id \in DOMAIN appointments :
                    DeleteAppointment(uid, id)
                       => /\ appointments' = appointments
                          /\ transactions' = transactions
            /\ last'.op = "pay" =>
                 \A child \in Children, amount \in Amounts :
                    RecordPayment(uid, child, amount, 0) => Rejected
            /\ last'.op = "unpay" =>
                 \A id \in DOMAIN transactions :
                    DeletePayment(uid, id) => transactions' = transactions
      ]_vars

\* C24 witness: an insert was refused by row-level security while a charge
\* and its appointment are stored: the caller without a profile sent it.
C24_Witness ==
    /\ last.op \in {"create", "pay"}
    /\ last.err.code = "42501"
    /\ DOMAIN appointments # {}
    /\ \E t \in DOMAIN transactions : transactions[t].type = "charge"

\* C25: in every reachable state each charge that refers to a stored
\* appointment is booked to the child of that appointment.
C25_ChargeChildMatches ==
    \A t \in DOMAIN transactions :
        ( /\ transactions[t].type = "charge"
          /\ transactions[t].appointment_id \in DOMAIN appointments )
        => transactions[t].child_id
              = appointments[transactions[t].appointment_id].child_id

\* C26: an edit that only changes a canceled appointment to a status other
\* than canceled, sent by a caller the update policy admits, is answered
\* with a conflict error and leaves every appointment and transaction as it
\* was, whenever the appointment's interval meets a non-canceled appointment
\* of the same child or the same specialist.
C26_ReopenBlocked ==
    [][last'.op = "edit" =>
         \A uid \in Users, id \in DOMAIN appointments,
            status \in AppointmentStatus \ {"canceled"} :
            LET row == appointments[id]
            IN  ( /\ row.status = "canceled"
                  /\ appointments_update_policy(uid, row)
                  /\ Blocked(appointments, id, row.child_id,
                             row.specialist_id, row.start_time, row.end_time)
                  /\ EditAppointment(uid, id, row.child_id, row.specialist_id,
                                     row.service_id, row.start_time,
                                     row.end_time - row.start_time, status) )
                => /\ isConflictError(last'.err)
                   /\ appointments' = appointments
                   /\ transactions' = transactions
      ]_vars

\* C26 witness: of two stored appointments one is canceled and one is not,
\* they share the specialist or the child and a tick, and the last edit was
\* refused by an exclusion constraint: only re-opening the canceled one can
\* have conflicted.
C26_Witness ==
    /\ last.op = "edit" /\ last.err.code = "23P01"
    /\ DOMAIN appointments = {1, 2}
    /\ \E a \in DOMAIN appointments, b \in Live(appointments) :
          /\ appointments[a].status = "canceled"
          /\ \/ appointments[a].specialist_id = appointments[b].specialist_id
             \/ appointments[a].child_id = appointments[b].child_id
          /\ Intersect(appointments[a].start_time, appointments[a].end_time,
                       appointments[b].start_time, appointments[b].end_time)

\* C27: CreateAppointment is answered with a conflict error only for a
\* non-canceled row whose half-open interval has a tick in common with a
\* non-canceled appointment of the same child or specialist; a request of an
\* elevated caller that meets no such appointment, one that only touches
\* another at a bound included, is answered with no error.
C27_ConflictOnlyOnOverlap ==
    [][(last'.op = "create" /\ last'.err.code # "ok") =>
         \A uid \in Elevated, child \in Children, spec \in Specialists,
            start \in 0 .. MaxStart, dur \in 1 .. MaxDur,
            status \in AppointmentStatus :
            CreateAppointment(uid, child, spec, "s1", start, dur, status)
               => /\ isConflictError(last'.err)
                  /\ status # "canceled"
                  /\ Blocked(appointments, NullId, child, spec,
                             start, start + dur)
      ]_vars

\* C27 witness: the last handler created a non-canceled appointment that
\* begins at the tick where another non-canceled appointment of the same
\* child and specialist ends, and both are stored.
C27_Witness ==
    /\ last.op = "create" /\ last.err.code = "ok"
    /\ nextApptId - 1 \in Live(appointments)
    /\ \E a \in Live(appointments) :
          LET A == appointments[a]
              B == appointments[nextApptId - 1]
          IN  /\ A.child_id = B.child_id /\ A.specialist_id = B.specialist_id
              /\ A.end_time = B.start_time

\* C28: a step that takes a stored appointment from "completed" to another
\* status leaves the transactions as they were: none removed, added or
\* modified.
C28_ChargeKeptOnStatusChange ==
    [][\A id \in DOMAIN appointments :
          ( /\ appointments[id].status = "completed"
            /\ id \in DOMAIN appointments'
            /\ appointments'[id].status # "completed" )
          => transactions' = transactions
      ]_vars

\* C28 witness: after an edit that succeeded, an appointment that is not
\* "completed" has a charge: it was completed, charged, and then changed.
C28_Witness ==
    /\ last.op = "edit" /\ last.err.code = "ok"
    /\ \E id \in DOMAIN appointments :
          /\ appointments[id].status # "completed"
          /\ ChargesOf(transactions, id) # {}

\* C29: buildOccurrences returns a finite list, of at most one start per
\* day from the seed's day to the end day and the seed; the list begins with
\* the seed start, is strictly increasing, so nothing in it is before the
\* seed; with an end day before the seed's day it is exactly the seed.
C29_OccurrencesOrdered ==
    \A c \in {"k1", "k2"} :
        req[c].pc = "expanded" =>
            LET occs == req[c].occs
                seedDay == DayOf(req[c].start)
            IN  /\ Len(occs) >= 1
                /\ Len(occs) <= (IF req[c].until < seedDay THEN 0
                                 ELSE req[c].until - seedDay + 1) + 1
                /\ occs[1] = req[c].start
                /\ \A k \in 1 .. Len(occs) - 1 : occs[k] < occs[k + 1]
                /\ \A k \in 1 .. Len(occs) : occs[k] >= req[c].start
                /\ req[c].until < seedDay => occs = <<req[c].start>>

\* C29 witness: a seed on a weekday that is not selected was put in front
\* of two or more later occurrences.
C29_Witness ==
    /\ req["k1"].pc = "expanded"
    /\ getDay(DayOf(req["k1"].start)) \notin req["k1"].weekdays
    /\ Len(req["k1"].occs) >= 3
    /\ req["k1"].occs[1] = req["k1"].start

\* C30: parseDateYYYYMMDD returns the date of every YYYY-MM-DD text, so a
\* recurring request with at least one weekday and a well-formed end date on
\* or after the seed's day raises no validation issue and is not turned
\* away by the form: it reaches the expander.
C30_EndDateParsed ==
    [][last'.op = "recurring" =>
         \A uid \in Elevated, child \in Children, spec \in Specialists,
            start \in 0 .. MaxStart, dur \in 1 .. MaxDur,
            weekdays \in WeekdaySets \ {{}}, untilDay \in 0 .. MaxUntilDay :
            ( /\ untilDay >= DayOf(start)
              /\ SubmitRecurring(uid, child, spec, "s1", start, dur,
                                 "confirmed", weekdays, DateText(untilDay)) )
            => /\ parseDateYYYYMMDD(DateText(untilDay))
                     = [ok |-> TRUE, day |-> untilDay]
               /\ appointmentSchemaIssues(start, weekdays,
                                          DateText(untilDay)) = {}
               /\ last'.err \notin {FormIssue, NoUntilError}
      ]_vars
====
